---- MODULE Spec2Model ----
(***************************************************************************)
(* Model of src/main.py (move n' shoot): Bullet, Player, Game and the      *)
(* module-level main loop.                                                 *)
(*                                                                         *)
(* Numbers.  The program computes with Python floats.  Here every length,  *)
(* velocity and acceleration is a fixed-point integer counting 1/Scale of  *)
(* a pixel (per second, per second squared); every float operation rounds  *)
(* towards zero.  float('inf') and the nan that 0*inf produces are the     *)
(* values PosInf, NegInf and NaN.  A time (delta_tx, delta_ty) is kept as  *)
(* the fraction <<numerator, denominator>>, denominator 0 meaning inf.     *)
(* Python indexes players 0 and 1; here they are 1 and 2.                  *)
(***************************************************************************)
EXTENDS Integers, Sequences, FiniteSets

VARIABLES
    players,     \* Game.players: sequence of Player records
    prev,        \* the players when the last update_physics call was entered
    moved,       \* the players when the last call reached line 422 (or raised)
    actions,     \* the action dictionaries decide_action returned in the last call
    hit_test,    \* per player, what line 418 saw in the last call
    setup,       \* which construction (positions, decide_action functions) was made
    ticks,       \* number of loop iterations executed
    pc           \* "loop", "done" (final score printed), "update_raised" (exception
                 \* in update_physics) or "draw_raised" (exception in draw_frame);
                 \* "coast" and "coast_body" once the thrust keys are released

vars == <<players, prev, moved, actions, hit_test, setup, ticks, pc>>

----------------------------------------------------------------------------
(* Bounds of the exploration *)

Scale == 10          \* fixed-point units per pixel
MaxTicks == 11       \* loop iterations explored in every setup but that of the module's main
MaxTicksMain == 2    \* loop iterations explored in the setup of the module's main
MaxThrustTicks == 4  \* loop iterations with thrust input before a run without thrust
MaxCalls == 2        \* update_physics calls explored on a Game built step by step

(* Program constants *)

screen_width == 1600
screen_height == 800
max_score == 10
MAX_SPEED == 1500
SHOOTING_SPEED == 3000
alpha == 20000
k == 3000
beta == 30
StopSpeed == 30
FramesPerSecond == 60        \* delta_t = 1/60
PlayerSize == 50             \* side of the (square) player image
BulletSize == 20
WallDampNum == 8             \* 0.8 = 8/10
WallDampDen == 10

PosInf == 2000000001
NegInf == -2000000001
NaN == 2000000002

----------------------------------------------------------------------------
(* Arithmetic *)

Abs(x) == IF x < 0 THEN -x ELSE x

Max(a, b) == IF a < b THEN b ELSE a

\* float division followed by rounding towards zero; b > 0
Quot(a, b) == IF a >= 0 THEN a \div b ELSE -((-a) \div b)

B2I(b) == IF b THEN 1 ELSE 0

IsFinite(x) == x # PosInf /\ x # NegInf /\ x # NaN

RECURSIVE SqrtSearch(_, _, _)
SqrtSearch(n, lo, hi) ==
    IF hi - lo <= 1 THEN lo
    ELSE LET mid == (lo + hi) \div 2
         IN IF mid * mid <= n THEN SqrtSearch(n, mid, hi) ELSE SqrtSearch(n, lo, mid)

\* ( ... ) ** 0.5 of a non-negative number below 2^31
Isqrt(n) == SqrtSearch(n, 0, 46341)

\* (x ** 2 + y ** 2) ** 0.5; large arguments are first scaled down, as the
\* float keeps only the leading digits
Hypot(x, y) ==
    LET m == Max(Abs(x), Abs(y))
        f == (m \div 30000) + 1
    IN IF f = 1 THEN Isqrt(x * x + y * y)
       ELSE f * Isqrt(Quot(x, f) * Quot(x, f) + Quot(y, f) * Quot(y, f))

\* v * (mag / len), where len = Hypot(v) > 0 belongs to a vector with component v
ScaleTo(v, mag, len) ==
    LET f == (Max(Abs(v), len) \div 30000) + 1
    IN Quot(Quot(v, f) * mag, Max(Quot(len, f), 1))

----------------------------------------------------------------------------
(* pygame.Rect *)

\* conversion of a float coordinate to the int a Rect stores
ToInt(x) == Quot(x, Scale)

\* Rect of the given side whose center is assigned a float position
RectAt(position, side) ==
    LET left == ToInt(position[1]) - (side \div 2)
        top == ToInt(position[2]) - (side \div 2)
    IN [left |-> left, top |-> top, right |-> left + side, bottom |-> top + side]

colliderect(r1, r2) ==
    /\ r1.left < r2.right /\ r1.right > r2.left
    /\ r1.top < r2.bottom /\ r1.bottom > r2.top

----------------------------------------------------------------------------
(* Bullet *)

NewBullet == [position |-> <<-100 * Scale, -100 * Scale>>,
              velocity |-> <<0, 0>>,
              was_shot |-> FALSE]

reset_bullet(b) == [position |-> <<-100 * Scale, 100 * Scale>>,
                    velocity |-> <<0, 0>>,
                    was_shot |-> FALSE]

\* a variant that leaves a live bullet where it is
BulletUpdate_Still(b) == b

\* Bullet.update(delta_t), delta_t = 1/60
BulletUpdate(b) ==
    IF b.was_shot
    THEN [b EXCEPT !.position = <<b.position[1] + Quot(b.velocity[1], FramesPerSecond),
                                  b.position[2] + Quot(b.velocity[2], FramesPerSecond)>>]
    ELSE b

BulletRect(b) == RectAt(b.position, BulletSize)

----------------------------------------------------------------------------
(* Player *)

NewPlayer(position) ==
    [position |-> <<position[1] * Scale, position[2] * Scale>>,
     velocity |-> <<0, 0>>,
     acceleration |-> <<0, 0>>,
     crosshair |-> <<200 * Scale, 200 * Scale>>,
     bullet |-> NewBullet,
     score |-> 0]

get_rect(p) == RectAt(p.position, PlayerSize)

\* the dictionary the default decide_action (no_action) returns; mouse is the
\* value pygame.mouse.get_pos() would return in this tick
NoAction ==
    [up |-> FALSE, down |-> FALSE, left |-> FALSE, right |-> FALSE, shoot |-> FALSE,
     ch_up |-> FALSE, ch_down |-> FALSE, ch_left |-> FALSE, ch_right |-> FALSE,
     ch_mouse |-> FALSE, mouse |-> <<0, 0>>]

\* lines 196-198: position after the CA step
MovedPosition(p) ==
    <<p.position[1] + Quot(p.velocity[1], FramesPerSecond)
                    + Quot(p.acceleration[1], 2 * FramesPerSecond * FramesPerSecond),
      p.position[2] + Quot(p.velocity[2], FramesPerSecond)
                    + Quot(p.acceleration[2], 2 * FramesPerSecond * FramesPerSecond)>>

\* lines 200-202: velocity after the CA step
IntegratedVelocity(p) ==
    <<p.velocity[1] + Quot(p.acceleration[1], FramesPerSecond),
      p.velocity[2] + Quot(p.acceleration[2], FramesPerSecond)>>

\* line 215: speed, taken after the velocity step and before the limit
SpeedOf(p) == Hypot(IntegratedVelocity(p)[1], IntegratedVelocity(p)[2])

\* lines 205-206
Thrust(a) == <<B2I(a.right) - B2I(a.left), B2I(a.down) - B2I(a.up)>>

\* lines 208-212, thrust_mag being 1000 times the magnitude of line 207
AccelerationOf(thrust, thrust_mag) ==
    IF thrust_mag > 0
    THEN <<Quot(alpha * Scale * 1000 * thrust[1], thrust_mag),
           Quot(alpha * Scale * 1000 * thrust[2], thrust_mag)>>
    ELSE <<0, 0>>

\* lines 204-212: acceleration from this tick's thrust
ThrustAcceleration(a) ==
    AccelerationOf(Thrust(a),
                   Isqrt(1000000 * (Thrust(a)[1] * Thrust(a)[1] + Thrust(a)[2] * Thrust(a)[2])))

\* a variant without the threshold of lines 221-223
LimitedVelocity_NoStop(v, speed) ==
    IF speed > MAX_SPEED * Scale
    THEN <<Quot(v[1] * MAX_SPEED * Scale, speed), Quot(v[2] * MAX_SPEED * Scale, speed)>>
    ELSE v

\* lines 214-223: speed limit, then threshold to zero; v is the velocity and
\* speed its magnitude after the CA step
LimitedVelocity(v, speed) ==
    IF speed < StopSpeed * Scale THEN <<0, 0>>
    ELSE IF speed > MAX_SPEED * Scale
    THEN <<Quot(v[1] * MAX_SPEED * Scale, speed), Quot(v[2] * MAX_SPEED * Scale, speed)>>
    ELSE v

\* a variant whose friction-like component is proportional to the velocity and
\* reverses it in one tick: 2 * velocity / delta_t
Friction_Overshoot(acc, v, speed) ==
    IF 10 * speed > Scale
    THEN <<acc[1] - 2 * FramesPerSecond * v[1], acc[2] - 2 * FramesPerSecond * v[2]>>
    ELSE acc

\* lines 225-228: friction, subtracted from the acceleration acc; v is the
\* velocity after lines 214-223
Friction(acc, v, speed) ==
    IF 10 * speed > Scale
    THEN <<acc[1] - Quot(v[1] * k * Scale, speed), acc[2] - Quot(v[2] * k * Scale, speed)>>
    ELSE acc

\* lines 230-236
MovedCrosshair(p, a) ==
    IF a.ch_mouse
    THEN <<a.mouse[1] * Scale, a.mouse[2] * Scale>>
    ELSE <<p.crosshair[1] + beta * Scale * (B2I(a.ch_right) - B2I(a.ch_left)),
           p.crosshair[2] + beta * Scale * (B2I(a.ch_down) - B2I(a.ch_up))>>

\* a variant that does not test was_shot
Fires_Always(p, a) == a.shoot

\* line 239
Fires(p, a) == a.shoot /\ ~p.bullet.was_shot

\* line 245
BulletSpeed(position, crosshair) ==
    Hypot(crosshair[1] - position[1], crosshair[2] - position[2])

\* lines 246-247 divide by bullet_speed: ZeroDivisionError when it is 0
UpdateRaises(p, a) ==
    Fires(p, a) /\ BulletSpeed(MovedPosition(p), MovedCrosshair(p, a)) = 0

\* lines 246-252, bullet_speed being the magnitude of line 245
ShotBullet(position, crosshair, bullet_speed) ==
    [position |-> position,
     velocity |-> <<ScaleTo(crosshair[1] - position[1], SHOOTING_SPEED * Scale, bullet_speed),
                    ScaleTo(crosshair[2] - position[2], SHOOTING_SPEED * Scale, bullet_speed)>>,
     was_shot |-> TRUE]

\* lines 238-252
FiredBullet(position, crosshair) ==
    ShotBullet(position, crosshair, BulletSpeed(position, crosshair))

\* a variant that recomputes the acceleration (lines 204-212) before the CA step
UpdatedPlayer_NoLag(p, a, v, speed) ==
    [position |-> MovedPosition([p EXCEPT !.acceleration = ThrustAcceleration(a)]),
     velocity |-> LimitedVelocity(IntegratedVelocity([p EXCEPT !.acceleration = ThrustAcceleration(a)]),
                                  SpeedOf([p EXCEPT !.acceleration = ThrustAcceleration(a)])),
     acceleration |-> Friction(ThrustAcceleration(a), LimitedVelocity(v, speed), speed),
     crosshair |-> MovedCrosshair(p, a),
     bullet |-> BulletUpdate(IF Fires(p, a)
                             THEN FiredBullet(MovedPosition(p), MovedCrosshair(p, a))
                             ELSE p.bullet),
     score |-> p.score]

\* lines 196-254, given the velocity after the CA step and its magnitude
UpdatedPlayer(p, a, v, speed) ==
    [position |-> MovedPosition(p),
     velocity |-> LimitedVelocity(v, speed),
     acceleration |-> Friction(ThrustAcceleration(a), LimitedVelocity(v, speed), speed),
     crosshair |-> MovedCrosshair(p, a),
     bullet |-> BulletUpdate(IF Fires(p, a)
                             THEN FiredBullet(MovedPosition(p), MovedCrosshair(p, a))
                             ELSE p.bullet),
     score |-> p.score]

\* Player.update(actions, delta_t), for a call that does not raise
PlayerUpdate(p, a) == UpdatedPlayer(p, a, IntegratedVelocity(p), SpeedOf(p))

\* the player whose update raised at line 246: lines 196-236 have run
HalfUpdated(p, a) ==
    [position |-> MovedPosition(p),
     velocity |-> LimitedVelocity(IntegratedVelocity(p), SpeedOf(p)),
     acceleration |-> Friction(ThrustAcceleration(a),
                               LimitedVelocity(IntegratedVelocity(p), SpeedOf(p)), SpeedOf(p)),
     crosshair |-> MovedCrosshair(p, a),
     bullet |-> p.bullet,
     score |-> p.score]

----------------------------------------------------------------------------
(* Game.update_physics *)

\* lines 387-395
LimitCrosshair(p) ==
    LET cx == IF p.crosshair[1] < 0 THEN 0
              ELSE IF p.crosshair[1] > screen_width * Scale THEN screen_width * Scale
              ELSE p.crosshair[1]
        cy == IF p.crosshair[2] < 0 THEN 0
              ELSE IF p.crosshair[2] > screen_height * Scale THEN screen_height * Scale
              ELSE p.crosshair[2]
    IN [p EXCEPT !.crosshair = <<cx, cy>>]

\* -velocity * 0.8
Bounce(v) == -Quot(v * WallDampNum, WallDampDen)

\* one test of lines 399-410: the coordinate is set and the velocity bounces
HitWall(p, hit, axis, coordinate) ==
    IF hit
    THEN [p EXCEPT !.position[axis] = coordinate, !.velocity[axis] = Bounce(p.velocity[axis])]
    ELSE p

\* lines 399-410, r being the Rect of line 398
WallTests(p, r) ==
    HitWall(HitWall(HitWall(HitWall(p, r.left < 0, 1, Quot(PlayerSize * Scale, 2)),
                            r.top < 0, 2, Quot(PlayerSize * Scale, 2)),
                    r.right > screen_width, 1,
                    screen_width * Scale - Quot(PlayerSize * Scale, 2)),
            r.bottom > screen_height, 2,
            screen_height * Scale - Quot(PlayerSize * Scale, 2))

\* lines 397-410; r is taken once, before the four tests
WallCollision(p) == WallTests(p, get_rect(p))

\* line 414
BulletOutside(r) ==
    r.right < 0 \/ r.bottom < 0 \/ r.left > screen_width \/ r.top > screen_height

\* lines 385-410: the player after update, crosshair limit and wall collision
MovedPlayer(p, a) == WallCollision(LimitCrosshair(PlayerUpdate(p, a)))

\* lines 413-415, r being the Rect of line 413
BulletWallCheck(q, r) ==
    IF BulletOutside(r) THEN [q EXCEPT !.bullet = reset_bullet(q.bullet)] ELSE q

\* lines 417-420: q after line 415, r the Rect of line 413, hit the test of line 418
BulletHitCheck(q, r, other, hit) ==
    [player |-> IF hit
                THEN [q EXCEPT !.score = q.score + 1, !.bullet = reset_bullet(q.bullet)]
                ELSE q,
     test |-> [live |-> q.bullet.was_shot, rect |-> r, other |-> other.position, hit |-> hit]]

\* lines 412-420 for the player q (already moved), other being self.players[1-i]
\* as it is when the loop reaches q.  The result holds the player and what the
\* test of line 418 saw.
BulletChecks(q, other) ==
    BulletHitCheck(BulletWallCheck(q, BulletRect(q.bullet)), BulletRect(q.bullet), other,
                   colliderect(BulletRect(q.bullet), get_rect(other)))

\* lines 461-470 on one axis: how long ago the boxes touched, as a fraction
ElapsedTime(p1, p2, axis) ==
    LET l == PlayerSize * Scale
        delta == l - Abs(p1.position[axis] - p2.position[axis])
        v == Abs(p1.velocity[axis] - p2.velocity[axis])
    IN IF v > 0 THEN <<delta, v>> ELSE <<1, 0>>

IsInf(t) == t[2] = 0

\* t1 < t2 for two elapsed times
TimeLess(t1, t2) ==
    IF IsInf(t1) THEN FALSE
    ELSE IF IsInf(t2) THEN TRUE
    ELSE t1[1] * t2[2] < t2[1] * t1[2]

\* min(t1, t2)
TimeMin(t1, t2) == IF TimeLess(t2, t1) THEN t2 ELSE t1

\* x - v * t
RollBack(x, v, t) ==
    IF IsInf(t)
    THEN (IF v > 0 THEN NegInf ELSE IF v < 0 THEN PosInf ELSE NaN)
    ELSE x - Quot(v * t[1], t[2])

\* a variant that takes the axis with the larger elapsed time
CollisionAxes_Larger(delta_tx, delta_ty) ==
    IF TimeLess(delta_ty, delta_tx) THEN <<TRUE, FALSE>>
    ELSE IF TimeLess(delta_tx, delta_ty) THEN <<FALSE, TRUE>>
    ELSE <<TRUE, TRUE>>

\* lines 472-478
CollisionAxes(delta_tx, delta_ty) ==
    IF TimeLess(delta_tx, delta_ty) THEN <<TRUE, FALSE>>
    ELSE IF TimeLess(delta_ty, delta_tx) THEN <<FALSE, TRUE>>
    ELSE <<TRUE, TRUE>>

\* lines 480-491 for player p, q being the other one
Resolved(p, q, delta_t, is_collision) ==
    [p EXCEPT !.position = <<RollBack(p.position[1], p.velocity[1], delta_t),
                             RollBack(p.position[2], p.velocity[2], delta_t)>>,
              !.velocity = <<IF is_collision[1] THEN q.velocity[1] ELSE p.velocity[1],
                             IF is_collision[2] THEN q.velocity[2] ELSE p.velocity[2]>>]

\* lines 459-491
ResolveCollision(player1, player2, delta_tx, delta_ty) ==
    <<Resolved(player1, player2, TimeMin(delta_tx, delta_ty), CollisionAxes(delta_tx, delta_ty)),
      Resolved(player2, player1, TimeMin(delta_tx, delta_ty), CollisionAxes(delta_tx, delta_ty))>>

\* Game.__parse_player_collision(player1, player2): the two players afterwards
ParsePlayerCollision(player1, player2) ==
    IF colliderect(get_rect(player1), get_rect(player2))
    THEN ResolveCollision(player1, player2,
                          ElapsedTime(player1, player2, 1), ElapsedTime(player1, player2, 2))
    ELSE <<player1, player2>>

\* what line 418 saw, before any tick
NoTest == [live |-> FALSE, rect |-> BulletRect(NewBullet), other |-> <<0, 0>>, hit |-> FALSE]

\* Game.create_simple_ai_binding: the crosshair flags follow players[0]
SimpleAiAction(raw, ps) ==
    [raw EXCEPT !.ch_mouse = FALSE,
                !.ch_left = ps[1].position[1] < ps[2].crosshair[1],
                !.ch_right = ps[1].position[1] > ps[2].crosshair[1],
                !.ch_up = ps[1].position[2] < ps[2].crosshair[2],
                !.ch_down = ps[1].position[2] > ps[2].crosshair[2]]

\* player.decide_action(self) of player i, line 382; raw holds the keys pressed
\* or the flags drawn at random in this tick
DecideAction(su, i, raw, ps) ==
    IF su = "main" /\ i = 2 THEN SimpleAiAction(raw, ps) ELSE raw

\* the loop state after the body ran for player i without raising
Checked(st, i, a, bc) ==
    [players |-> [st.players EXCEPT ![i] = bc.player],
     actions |-> [st.actions EXCEPT ![i] = a],
     hit_test |-> [st.hit_test EXCEPT ![i] = bc.test],
     raised |-> FALSE]

\* lines 381-420 for player i, with the actions a decided at line 382.
\* ZeroDivisionError at 246 and IndexError at 418 leave the loop.
LoopBody(st, i, a) ==
    IF UpdateRaises(st.players[i], a)
    THEN [st EXCEPT !.players[i] = HalfUpdated(st.players[i], a), !.actions[i] = a,
                    !.raised = TRUE]
    ELSE IF 3 - i > Len(st.players)
    THEN [st EXCEPT !.players[i] = MovedPlayer(st.players[i], a), !.actions[i] = a,
                    !.raised = TRUE]
    ELSE Checked(st, i, a, BulletChecks(MovedPlayer(st.players[i], a), st.players[3 - i]))

\* lines 378-420: the loop over the players, from player i on.  st holds the
\* players, the actions decided and the hit tests made so far, and whether an
\* exception was raised.
RECURSIVE PlayerLoop(_, _, _, _)
PlayerLoop(st, su, raw, i) ==
    IF st.raised \/ i > Len(st.players) THEN st
    ELSE PlayerLoop(LoopBody(st, i, DecideAction(su, i, raw[i], st.players)), su, raw, i + 1)

\* the state when the loop of lines 378-420 is over
AfterLoop(ps, acts, tests, su, raw) ==
    PlayerLoop([players |-> ps, actions |-> acts, hit_test |-> tests, raised |-> FALSE],
               su, raw, 1)

\* lines 422-424
CollisionStep(st) ==
    IF ~st.raised /\ Len(st.players) = 2
    THEN [st EXCEPT !.players = ParsePlayerCollision(st.players[1], st.players[2])]
    ELSE st

\* Game.update_physics()
UpdatePhysics(ps, acts, tests, su, raw) == CollisionStep(AfterLoop(ps, acts, tests, su, raw))

\* Game.draw_frame(): every player's get_rect assigns the position to a Rect,
\* which cannot hold inf or nan
DrawFrameRaises(ps) ==
    \E i \in 1..Len(ps) : ~IsFinite(ps[i].position[1]) \/ ~IsFinite(ps[i].position[2])

----------------------------------------------------------------------------
(* Constructions and input sources *)

\* "main" is the construction of lines 614-616 (human player and simple AI);
\* the others are Games whose two players are added at other positions, with
\* decide_action functions that return key flags and never use the mouse
Setups == {"main", "duel", "chase", "drift", "overlap", "wall"}

\* the positions given to add_player
StartPositions(su) ==
    CASE su = "main" -> <<<<100, 100>>, <<screen_width, screen_height>>>>
      [] su = "duel" -> <<<<260, 200>>, <<330, 200>>>>
      [] su = "chase" -> <<<<97, 100>>, <<25, 100>>>>
      [] su = "drift" -> <<<<300, 300>>, <<355, 366>>>>
      [] su = "overlap" -> <<<<300, 300>>, <<300, 300>>>>
      [] su = "wall" -> <<<<60, 100>>, <<1000, 600>>>>

\* what the input source of player i may produce in one tick
RawInputs(su, i) ==
    CASE su = "main" /\ i = 1 ->
            {[NoAction EXCEPT !.ch_mouse = TRUE, !.mouse = <<800, 400>>],
             [NoAction EXCEPT !.ch_mouse = TRUE, !.mouse = <<800, 400>>, !.shoot = TRUE],
             [NoAction EXCEPT !.ch_mouse = TRUE, !.mouse = <<100, 100>>, !.shoot = TRUE],
             [NoAction EXCEPT !.ch_mouse = TRUE, !.mouse = <<100, 100>>, !.down = TRUE,
                              !.right = TRUE]}
      [] su = "main" /\ i = 2 ->
            {NoAction,
             [NoAction EXCEPT !.shoot = TRUE],
             [NoAction EXCEPT !.left = TRUE, !.up = TRUE]}
      [] su = "duel" /\ i = 1 ->
            {NoAction,
             [NoAction EXCEPT !.shoot = TRUE],
             [NoAction EXCEPT !.ch_right = TRUE]}
      [] su = "duel" /\ i = 2 ->
            {NoAction,
             [NoAction EXCEPT !.shoot = TRUE]}
      [] su = "chase" /\ i = 1 ->
            {NoAction,
             [NoAction EXCEPT !.right = TRUE]}
      [] su = "chase" /\ i = 2 ->
            {[NoAction EXCEPT !.right = TRUE]}
      [] su = "drift" /\ i = 1 ->
            {NoAction,
             [NoAction EXCEPT !.down = TRUE, !.right = TRUE]}
      [] su = "wall" /\ i = 1 ->
            {NoAction,
             [NoAction EXCEPT !.left = TRUE]}
      [] OTHER -> {NoAction}

TickBound(su) == IF su = "main" THEN MaxTicksMain ELSE MaxTicks

----------------------------------------------------------------------------
(* The main loop, lines 612-625 *)

Init ==
    /\ setup \in Setups
    /\ players = <<NewPlayer(StartPositions(setup)[1]), NewPlayer(StartPositions(setup)[2])>>
    /\ prev = players
    /\ moved = players
    /\ actions = <<NoAction, NoAction>>
    /\ hit_test = <<NoTest, NoTest>>
    /\ ticks = 0
    /\ pc = "loop"

\* a variant that still loops at max_score
LoopCondition_Inclusive ==
    players[1].score <= max_score /\ players[2].score <= max_score

\* line 618
LoopCondition == players[1].score < max_score /\ players[2].score < max_score

\* where the iteration ends: st is the state at line 422, ps the players after
\* update_physics
AfterTick(st, ps) ==
    IF st.raised THEN "update_raised"
    ELSE IF DrawFrameRaises(ps) THEN "draw_raised"
    ELSE "loop"

\* one iteration: handle_events, update_physics, draw_frame
Tick ==
    /\ pc = "loop"
    /\ LoopCondition
    /\ ticks < TickBound(setup)
    /\ \E raw1 \in RawInputs(setup, 1), raw2 \in RawInputs(setup, 2) :
          \E st \in {AfterLoop(players, actions, hit_test, setup, <<raw1, raw2>>)} :
             \E end \in {CollisionStep(st)} :
                /\ prev' = players
                /\ moved' = st.players
                /\ players' = end.players
                /\ actions' = st.actions
                /\ hit_test' = st.hit_test
                /\ pc' = AfterTick(st, end.players)
    /\ ticks' = ticks + 1
    /\ UNCHANGED setup

\* lines 623-625: the loop is left and the final score printed
Finish ==
    /\ pc = "loop"
    /\ ~LoopCondition
    /\ pc' = "done"
    /\ UNCHANGED <<players, prev, moved, actions, hit_test, setup, ticks>>

Next == Tick \/ Finish

Spec == Init /\ [][Next]_vars

----------------------------------------------------------------------------
(* Runs in which, from some tick on, no thrust key is held *)

\* the action dictionary a with the thrust flags and shoot false
Released(a) ==
    [a EXCEPT !.up = FALSE, !.down = FALSE, !.left = FALSE, !.right = FALSE,
              !.shoot = FALSE]

\* what the input source of player i may produce once these keys are released
CoastInputs(su, i) == {Released(a) : a \in RawInputs(su, i)}

\* an iteration of the phase in which thrust keys may still be held
ThrustTick == ticks < MaxThrustTicks /\ Tick

\* from now on no player receives thrust; pc "coast" is line 618 under this
\* restriction, pc "coast_body" lines 619-621
StartCoast ==
    /\ pc = "loop"
    /\ LoopCondition
    /\ pc' = "coast"
    /\ UNCHANGED <<players, prev, moved, actions, hit_test, setup, ticks>>

\* line 618: the condition holds and the loop body is entered
CoastBegin ==
    /\ pc = "coast"
    /\ LoopCondition
    /\ pc' = "coast_body"
    /\ UNCHANGED <<players, prev, moved, actions, hit_test, setup, ticks>>

\* where an iteration without thrust ends
AfterCoastTick(st, ps) ==
    IF AfterTick(st, ps) = "loop" THEN "coast" ELSE AfterTick(st, ps)

\* lines 619-621 without thrust input; ticks counts the iterations before
CoastTick ==
    /\ pc = "coast_body"
    /\ \E raw1 \in CoastInputs(setup, 1), raw2 \in CoastInputs(setup, 2) :
          \E st \in {AfterLoop(players, actions, hit_test, setup, <<raw1, raw2>>)} :
             \E end \in {CollisionStep(st)} :
                /\ prev' = players
                /\ moved' = st.players
                /\ players' = end.players
                /\ actions' = st.actions
                /\ hit_test' = st.hit_test
                /\ pc' = AfterCoastTick(st, end.players)
    /\ UNCHANGED <<setup, ticks>>

NextCoast == ThrustTick \/ StartCoast \/ CoastBegin \/ CoastTick

\* the loop of line 618 keeps iterating while its condition holds
SpecCoast == Init /\ [][NextCoast]_vars /\ WF_vars(CoastBegin)

----------------------------------------------------------------------------
(* A Game built step by step: add_player and update_physics called on it *)

\* Game(): no player yet
InitCount ==
    /\ setup \in Setups
    /\ players = <<>>
    /\ prev = <<>>
    /\ moved = <<>>
    /\ actions = <<NoAction, NoAction>>
    /\ hit_test = <<NoTest, NoTest>>
    /\ ticks = 0
    /\ pc = "loop"

\* Game.add_player(decide_action_fun, position, player_color)
add_player ==
    /\ pc = "loop"
    /\ players' = IF Len(players) < 2
                  THEN Append(players, NewPlayer(StartPositions(setup)[Len(players) + 1]))
                  ELSE players
    /\ UNCHANGED <<prev, moved, actions, hit_test, setup, ticks, pc>>

\* Game.update_physics() on the players the game holds; ticks counts the calls.
\* No call is made once a position is inf or nan (no Rect can be built from it).
update_physics ==
    /\ pc = "loop"
    /\ ticks < MaxCalls
    /\ ~DrawFrameRaises(players)
    /\ \E raw1 \in RawInputs(setup, 1), raw2 \in RawInputs(setup, 2) :
          \E st \in {AfterLoop(players, actions, hit_test, setup, <<raw1, raw2>>)} :
             \E end \in {CollisionStep(st)} :
                /\ prev' = players
                /\ moved' = st.players
                /\ players' = end.players
                /\ actions' = st.actions
                /\ hit_test' = st.hit_test
                /\ pc' = IF st.raised THEN "update_raised" ELSE "loop"
    /\ ticks' = ticks + 1
    /\ UNCHANGED setup

NextCount == add_player \/ update_physics

SpecCount == InitCount /\ [][NextCount]_vars

----------------------------------------------------------------------------
(* Properties *)

PlayerIds == 1..2

\* the bounding box of player i lies fully inside the arena
BoxInside(i) ==
    /\ IsFinite(players[i].position[1]) /\ IsFinite(players[i].position[2])
    /\ get_rect(players[i]).left >= 0
    /\ get_rect(players[i]).top >= 0
    /\ get_rect(players[i]).right <= screen_width
    /\ get_rect(players[i]).bottom <= screen_height

\* C1: at the end of every update_physics call (every tick that did not raise),
\* the bounding box of each of the two players lies fully inside the arena.
C1_WallContainment ==
    (ticks > 0 /\ pc = "loop") => \A i \in PlayerIds : BoxInside(i)

\* the last update_physics call ran to its end
TickDone == ticks > 0 /\ pc # "update_raised"

\* C2: in every tick a player's score changes only if that player's projectile
\* is live at the hit test and its box intersects the other player's box; the
\* score then rises by exactly 1 and the projectile is not live after the tick.
C2_ScoreOnlyOnLiveHit ==
    \A i \in PlayerIds :
        players[i].score # prev[i].score =>
            /\ hit_test[i].live
            /\ hit_test[i].hit
            /\ players[i].score = prev[i].score + 1
            /\ ~players[i].bullet.was_shot

\* Player.update of player i was called with shoot set, the projectile not live
\* and the crosshair, after this tick's updates, exactly at the player's position
DegenerateFire(i) ==
    /\ actions[i].shoot
    /\ ~prev[i].bullet.was_shot
    /\ MovedCrosshair(prev[i], actions[i]) = MovedPosition(prev[i])

\* C3: a degenerate fire (crosshair exactly at the player's position) does not
\* crash: the update returns and the tick completes.
C3_DegenerateFireCompletes ==
    \A i \in PlayerIds : (ticks > 0 /\ DegenerateFire(i)) => pc # "update_raised"

\* __parse_player_collision found the two boxes intersecting in the last tick
CollisionFound ==
    TickDone /\ colliderect(get_rect(moved[1]), get_rect(moved[2]))

\* C4: when the boxes intersect and the two velocities are equal on both axes,
\* __parse_player_collision performs no rollback: both positions are unchanged.
C4_NoRollbackAtZeroRelativeVelocity ==
    (CollisionFound /\ moved[1].velocity = moved[2].velocity) =>
        \A i \in PlayerIds : players[i].position = moved[i].position

\* the axis is a collision axis: its elapsed time is not larger than the other's
ChosenAxis(axis) ==
    ~TimeLess(ElapsedTime(moved[1], moved[2], 3 - axis), ElapsedTime(moved[1], moved[2], axis))

\* C5: when the boxes intersect, on each collision axis the two players exchange
\* their velocity components, on the other axis both keep theirs, and the sum of
\* the two velocities on each axis is the same before and after.
C5_ElasticExchange ==
    CollisionFound =>
        \A axis \in 1..2 :
            /\ ChosenAxis(axis) =>
                  /\ players[1].velocity[axis] = moved[2].velocity[axis]
                  /\ players[2].velocity[axis] = moved[1].velocity[axis]
            /\ ~ChosenAxis(axis) =>
                  /\ players[1].velocity[axis] = moved[1].velocity[axis]
                  /\ players[2].velocity[axis] = moved[2].velocity[axis]
            /\ players[1].velocity[axis] + players[2].velocity[axis]
                  = moved[1].velocity[axis] + moved[2].velocity[axis]

\* a collision on the x axis alone exchanged two different x velocities
C5_Witness ==
    /\ CollisionFound
    /\ ChosenAxis(1) /\ ~ChosenAxis(2)
    /\ moved[1].velocity[1] # moved[2].velocity[1]
    /\ players[1].velocity[1] = moved[2].velocity[1]

\* C6: a tick is executed only while both scores are below max_score, the loop
\* is left only when one has reached it; each score starts at 0, never
\* decreases, rises by at most 1 per tick and never exceeds max_score.
C6_MatchEnd ==
    /\ ticks = 0 => \A i \in PlayerIds : players[i].score = 0
    /\ \A i \in PlayerIds : players[i].score >= 0 /\ players[i].score <= max_score
    /\ ticks > 0 =>
          \A i \in PlayerIds :
              /\ prev[i].score < max_score
              /\ players[i].score >= prev[i].score
              /\ players[i].score <= prev[i].score + 1
    /\ pc = "done" => \E i \in PlayerIds : players[i].score = max_score

\* the loop was left after the tick in which a score reached max_score
C6_Witness ==
    /\ pc = "done"
    /\ \E i \in PlayerIds : players[i].score = max_score /\ prev[i].score = max_score - 1

NoThrust(a) == ~a.up /\ ~a.down /\ ~a.left /\ ~a.right

\* C7 as claimed: speed below 30 before the call and no thrust give velocity
\* (0,0) after the call, whatever acceleration was left over.
C7_StopFromSpeedBefore ==
    \A i \in PlayerIds :
        (/\ TickDone
         /\ NoThrust(actions[i])
         /\ Hypot(prev[i].velocity[1], prev[i].velocity[2]) < StopSpeed * Scale)
        => moved[i].velocity = <<0, 0>>

\* C7 amended: when the speed after adding the left-over acceleration times
\* delta_t to the velocity is below 30 and there is no thrust, the velocity
\* after the call is exactly (0,0).
C7_StopThreshold ==
    \A i \in PlayerIds :
        (/\ TickDone
         /\ NoThrust(actions[i])
         /\ SpeedOf(prev[i]) < StopSpeed * Scale)
        => moved[i].velocity = <<0, 0>>

\* a player moving slower than 30 after the velocity step was stopped
C7_Witness ==
    \E i \in PlayerIds :
        /\ TickDone
        /\ NoThrust(actions[i])
        /\ SpeedOf(prev[i]) < StopSpeed * Scale
        /\ IntegratedVelocity(prev[i]) # <<0, 0>>
        /\ moved[i].velocity = <<0, 0>>

\* C8: a live projectile is not fired again: its velocity is kept and its
\* position advances by velocity*delta_t, until it leaves the arena or hits the
\* opponent; a projectile becomes live only in a tick with shoot set, and
\* without shoot a projectile that is not live is left where it is.
C8_SingleProjectile ==
    \A i \in PlayerIds :
        TickDone =>
            /\ players[i].bullet = moved[i].bullet
            /\ prev[i].bullet.was_shot =>
                  /\ hit_test[i].rect = BulletRect(BulletUpdate(prev[i].bullet))
                  /\ moved[i].bullet.was_shot => moved[i].bullet = BulletUpdate(prev[i].bullet)
                  /\ ~moved[i].bullet.was_shot => BulletOutside(hit_test[i].rect) \/ hit_test[i].hit
            /\ (~prev[i].bullet.was_shot /\ moved[i].bullet.was_shot) => actions[i].shoot
            /\ (~prev[i].bullet.was_shot /\ ~actions[i].shoot) =>
                  /\ ~moved[i].bullet.was_shot
                  /\ hit_test[i].rect = BulletRect(prev[i].bullet)

\* shoot was set while the projectile was in flight, and it flew on
C8_Witness ==
    \E i \in PlayerIds :
        /\ TickDone
        /\ prev[i].bullet.was_shot
        /\ actions[i].shoot
        /\ moved[i].bullet.was_shot
        /\ moved[i].bullet.position # prev[i].bullet.position

ThrustFlags == [up : BOOLEAN, down : BOOLEAN, left : BOOLEAN, right : BOOLEAN]

WithThrust(a, t) == [a EXCEPT !.up = t.up, !.down = t.down, !.left = t.left, !.right = t.right]

\* player i at line 422 had its decide_action returned a in the last tick
RerunPlayer(i, a) ==
    BulletChecks(MovedPlayer(prev[i], a), IF i = 1 THEN prev[2] ELSE moved[1]).player

\* C9: whatever thrust flags the tick's actions had held instead, the player
\* would be in the same state after the tick's update, acceleration excepted.
C9_InputLag ==
    \A i \in PlayerIds :
        TickDone =>
            \A t \in ThrustFlags :
                [RerunPlayer(i, WithThrust(actions[i], t)) EXCEPT
                    !.acceleration = moved[i].acceleration] = moved[i]

\* a player at rest was given thrust: it has an acceleration and has not moved
C9_Witness ==
    \E i \in PlayerIds :
        /\ TickDone
        /\ ~NoThrust(actions[i])
        /\ prev[i].velocity = <<0, 0>> /\ prev[i].acceleration = <<0, 0>>
        /\ moved[i].acceleration # <<0, 0>>
        /\ moved[i].position = prev[i].position /\ moved[i].velocity = <<0, 0>>

\* C10: the hit test of each player's projectile uses the opponent's position of
\* the current tick, after the opponent's own update and wall collision.
C10_HitTestAfterAllUpdates ==
    TickDone => \A i \in PlayerIds : hit_test[i].other = moved[3 - i].position

\* the rollback time of the last collision, min(delta_tx, delta_ty)
RollbackTime == TimeMin(ElapsedTime(moved[1], moved[2], 1), ElapsedTime(moved[1], moved[2], 2))

\* distance between the two centers on an axis, after the last tick
CenterDistance(axis) == Abs(players[1].position[axis] - players[2].position[axis])

\* C11: when a collision is resolved with a finite rollback time, that time is
\* not negative and after the rollback the centers are one box side apart on
\* each collision axis (up to the rounding of the two subtractions), whether the
\* players were approaching or separating on it.
C11_RollbackUndoesPenetration ==
    (CollisionFound /\ ~IsInf(RollbackTime)) =>
        /\ RollbackTime[1] >= 0
        /\ \A axis \in 1..2 :
              ChosenAxis(axis) => Abs(CenterDistance(axis) - PlayerSize * Scale) <= 2

\* every player is at rest
AllStopped == \A i \in PlayerIds : players[i].velocity = <<0, 0>>

\* the run keeps iterating without thrust input
KeepsCoasting == []<>(pc = "coast") /\ []<>(pc = "coast_body")

\* C12: in every run that, from some tick on, keeps iterating without thrust
\* input, the velocity of every player eventually is (0,0) and stays (0,0),
\* also when walls are hit or the players collide on the way.  (A run that an
\* exception ends has no later ticks.)
C12_EventualStop == KeepsCoasting => <>[]AllStopped

\* a player that was moving when the thrust ended has come to rest
C12_Witness ==
    /\ pc = "coast"
    /\ AllStopped
    /\ \E i \in PlayerIds : prev[i].velocity # <<0, 0>>

\* the projectile of player i is live
Live(i) == players[i].bullet.was_shot

\* C13: in every run that keeps iterating, a projectile that is live is later
\* not live again: it has left the arena or hit the opponent.
C13_ProjectileEventuallyReset ==
    KeepsCoasting => \A i \in PlayerIds : [](Live(i) => <>~Live(i))

\* a projectile in flight left the arena and was reset
C13_Witness ==
    \E i \in PlayerIds :
        /\ pc = "coast"
        /\ prev[i].bullet.was_shot
        /\ moved[i].bullet = reset_bullet(prev[i].bullet)
        /\ BulletOutside(hit_test[i].rect)

\* C14: the game never holds more than 2 players, and update_physics completes
\* without error when it holds fewer than 2: the per-player steps have run and
\* the collision step has changed nothing.
C14_PlayerCount ==
    /\ Len(players) <= 2
    /\ (ticks > 0 /\ Len(prev) < 2) =>
          /\ pc # "update_raised"
          /\ players = moved

====
